---- MODULE Spec2Model ----
(***************************************************************************)
(* Model of pypicache.disk.DiskPackageStore: the on-disk package store.    *)
(*                                                                         *)
(* Strings are sequences of one-character strings.  The filesystem below   *)
(* the store's prefix is a set of directories and a map from file paths to *)
(* contents, both keyed by the sequence of path components.  Paths are     *)
(* built as strings exactly as the code formats them and resolved by       *)
(* splitting on "/", as the operating system does.                         *)
(*                                                                         *)
(* add_file is modelled statement by statement (one action per system      *)
(* call), get_file as its open attempt and its fishing scan.  Spec is the  *)
(* single sequential caller of the store; SpecConc runs two add_file       *)
(* callers with their statements interleaved; SpecPaths is the sequential  *)
(* caller with file names that spell one nested path in two ways.          *)
(***************************************************************************)
EXTENDS Integers, Sequences, FiniteSets, TLC

VARIABLES dirs, files, wr, rd, stored, nadds

vars == <<dirs, files, wr, rd, stored, nadds>>

\* ------------------------------------------------------------------ bounds

\* Number of add_file calls made in one behaviour.
MaxAdds == 2

\* Number of nested get_file frames the interpreter allows before it raises
\* RuntimeError (maximum recursion depth exceeded); the interpreter's own
\* limit is larger, the behaviour at the limit is the same.
RecursionLimit == 3

\* ------------------------------------------------------------------ inputs

\* Package names handed to add_file: two spellings of one name that differ
\* in case (and so in shard letter), and one unrelated name.
PackageNames == { <<"a","b">>, <<"A","b">>, <<"b">> }

\* Package names handed to the read operations: one more spelling, which
\* add_file never stores.
RequestPackages == PackageNames \cup { <<"A","B">> }

\* File names handed to add_file: two spellings of one name, and a name
\* inside a subdirectory.
FileNames == { <<"x">>, <<"X">>, <<"s","/","x">> }

\* File names handed to get_file: one more spelling of the nested name.
RequestFiles == FileNames \cup { <<"s","/","X">> }

\* File names that spell one nested name in two ways: the second holds an
\* empty path component, which the filesystem skips when it resolves the
\* path.
PathFileNames == { <<"s","/","x">>, <<"s","/","/","x">> }

\* The content argument of add_file: a byte string or an object with read();
\* fault names the statement at which the environment makes the call fail
\* (open: open() raises, read: content.read() raises, write: the disk fills
\* up while the bytes are written).
ContentArgs ==
    { [kind |-> "bytes",  data |-> <<1, 2>>, fault |-> "none"],
      [kind |-> "bytes",  data |-> <<2, 1>>, fault |-> "none"],
      [kind |-> "stream", data |-> <<1, 2>>, fault |-> "none"],
      [kind |-> "stream", data |-> <<1, 2>>, fault |-> "read"],
      [kind |-> "bytes",  data |-> <<1, 2>>, fault |-> "write"],
      [kind |-> "bytes",  data |-> <<1, 2>>, fault |-> "open"] }

\* The callers of add_file; the sequential caller is caller 1.
Writers == {1, 2}
SeqWriters == {1}

\* Directory enumeration orders of the filesystem (os.listdir gives no
\* order): ascending or descending by name.
Orders == {"asc", "desc"}

\* ------------------------------------------------------------------ strings

\* ord() of the characters in use.
Ord(c) ==
    CASE c = "/" -> 47  [] c = "A" -> 65  [] c = "B" -> 66  [] c = "X" -> 88
      [] c = "a" -> 97  [] c = "b" -> 98  [] c = "c" -> 99  [] c = "e" -> 101
      [] c = "g" -> 103 [] c = "k" -> 107 [] c = "p" -> 112 [] c = "s" -> 115
      [] c = "x" -> 120

\* str.lower() on one character.
LowerChar(c) ==
    CASE c = "A" -> "a" [] c = "B" -> "b" [] c = "X" -> "x" [] OTHER -> c

\* str.lower()
Lower(s) == [i \in 1..Len(s) |-> LowerChar(s[i])]

\* s1 <= s2 in Python's string order: the first differing character
\* decides, a proper prefix comes first.
RECURSIVE StrLeq(_, _)
StrLeq(s1, s2) ==
    IF s1 = <<>> THEN TRUE
    ELSE IF s2 = <<>> THEN FALSE
    ELSE IF Head(s1) = Head(s2) THEN StrLeq(Tail(s1), Tail(s2))
    ELSE Ord(Head(s1)) < Ord(Head(s2))

\* min(S) for a set of strings.
MinStr(S) == CHOOSE x \in S : \A y \in S : StrLeq(x, y)

\* sorted(S) for a set of strings.
RECURSIVE Sorted(_)
SortedFrom(m, S) == <<m>> \o Sorted(S \ {m})
Sorted(S) == IF S = {} THEN <<>> ELSE SortedFrom(MinStr(S), S)

\* The reverse of a sequence.
Reverse(s) == [i \in 1..Len(s) |-> s[Len(s) + 1 - i]]

\* The names of S in the enumeration order ord of the filesystem.
InOrder(seq, ord) == IF ord = "asc" THEN seq ELSE Reverse(seq)
Enumerate(S, ord) == InOrder(Sorted(S), ord)

\* ------------------------------------------------------------------ paths

PackagesStr == <<"p","a","c","k","a","g","e","s">>

\* Index of the last "/" of s, 0 when there is none.
LastSlash(s) ==
    LET at == {i \in 1..Len(s) : s[i] = "/"}
    IN  IF at = {} THEN 0 ELSE CHOOSE i \in at : \A j \in at : j <= i

\* os.path.basename
Basename(s) == SubSeq(s, LastSlash(s) + 1, Len(s))

\* s.rstrip("/")
RECURSIVE RStripSlash(_)
RStripSlash(s) ==
    IF s # <<>> /\ s[Len(s)] = "/" THEN RStripSlash(SubSeq(s, 1, Len(s) - 1))
    ELSE s

\* os.path.dirname: the head up to the last "/", trailing slashes stripped
\* unless the head is slashes only.
Dirname(s) ==
    LET head == SubSeq(s, 1, LastSlash(s))
    IN  IF head # <<>> /\ RStripSlash(head) # <<>> THEN RStripSlash(head) ELSE head

\* Index of the first "/" of s, Len(s) + 1 when there is none.
RECURSIVE FirstSlash(_)
FirstSlash(s) ==
    IF s = <<>> \/ Head(s) = "/" THEN 1 ELSE 1 + FirstSlash(Tail(s))

\* The components of a path string below the store's prefix, as the kernel
\* resolves it: split on "/", empty components dropped.
RECURSIVE Split(_)
Component(head) == IF head = <<>> THEN <<>> ELSE <<head>>
SplitAt(s, i) == Component(SubSeq(s, 1, i - 1)) \o Split(SubSeq(s, i + 1, Len(s)))
Split(s) == IF s = <<>> THEN <<>> ELSE SplitAt(s, FirstSlash(s))

\* The path string of a sequence of components.
RECURSIVE Join(_)
Join(cs) ==
    IF cs = <<>> THEN <<>>
    ELSE IF Len(cs) = 1 THEN cs[1]
    ELSE cs[1] \o <<"/">> \o Join(Tail(cs))

\* Mutant: the path without the shard directory, "packages/{b}/{c}".
GetFilePathFlat(package, filename) ==
    PackagesStr \o <<"/">> \o package \o <<"/">> \o filename

\* Mutant: the shard is the lower-case first letter of the package.
GetFilePathLowerShard(package, filename) ==
    PackagesStr \o <<"/">> \o <<LowerChar(Head(package))>> \o <<"/">> \o package
        \o <<"/">> \o filename

\* get_file_path: "packages/{a}/{b}/{c}" with a the first letter of package,
\* joined to the prefix (paths here are relative to the prefix).
GetFilePath(package, filename) ==
    PackagesStr \o <<"/">> \o <<Head(package)>> \o <<"/">> \o package
        \o <<"/">> \o filename

\* The package prefix of list_files: "packages/{a}/{b}".
PackagePrefix(package) ==
    PackagesStr \o <<"/">> \o <<Head(package)>> \o <<"/">> \o package

\* ------------------------------------------------------------------ filesystem

\* Mutant: the existence check looks at the directory of the path.
IsFileOfDirname(path) == Split(Dirname(path)) \in DOMAIN files

\* os.path.isfile
IsFile(path) == Split(path) \in DOMAIN files

\* os.path.isdir (the prefix itself exists)
IsDir(path) == Split(path) = <<>> \/ Split(path) \in dirs

\* os.makedirs(path): creates the missing directories from the top down;
\* raises OSError when the leaf exists already or a component is a file.
\* The directories created before the failure stay.
MakedirsOk(path) ==
    LET cs == Split(path)
    IN  /\ cs \notin dirs
        /\ \A i \in 1..Len(cs) : SubSeq(cs, 1, i) \notin DOMAIN files

MakedirsDirs(path) ==
    LET cs == Split(path)
        blocked == {i \in 1..Len(cs) : SubSeq(cs, 1, i) \in DOMAIN files}
        upto == IF blocked = {} THEN Len(cs)
                ELSE (CHOOSE i \in blocked : \A j \in blocked : i <= j) - 1
    IN  dirs \cup {SubSeq(cs, 1, i) : i \in 1..upto}

\* open(path, "wb") can create or truncate the file: the parent is a
\* directory and the path is not one.
CanOpenWrite(path) ==
    LET cs == Split(path)
    IN  /\ cs # <<>>
        /\ cs \notin dirs
        /\ (Len(cs) = 1 \/ SubSeq(cs, 1, Len(cs) - 1) \in dirs)

\* What a file holds after new is written at offset 0 of a file holding old.
Overlay(old, new) == new \o SubSeq(old, Len(new) + 1, Len(old))

\* The entries (files and directories) directly inside directory cs.
Children(cs) ==
    {e \in dirs \cup DOMAIN files :
        Len(e) = Len(cs) + 1 /\ SubSeq(e, 1, Len(cs)) = cs}

\* glob("packages/?/*"): the entries two levels below packages whose first
\* level name is one character long, as path strings.
Glob ==
    {Join(e) : e \in {x \in dirs \cup DOMAIN files :
                        /\ Len(x) = 3
                        /\ x[1] = PackagesStr
                        /\ Len(x[2]) = 1}}

\* hashlib.md5(open(abspath).read()).hexdigest(): the digest of the bytes
\* of the file (read() gives them as they are under Python 2, the
\* interpreter of this code).
Md5(content) == <<"md5", content>>

\* The last components of the paths in S, in enumeration order ord.
Names(S, ord) == Enumerate({e[Len(e)] : e \in S}, ord)

\* The paths cs/name for the names of a sequence.
Under(cs, names) == [i \in 1..Len(names) |-> cs \o <<names[i]>>]

\* Mutant: the walk stays in the top directory.
WalkTopOnly(cs, ord) ==
    IF cs \notin dirs THEN <<>>
    ELSE Under(cs, Names(Children(cs) \cap DOMAIN files, ord))

\* os.walk(top, topdown=False), flattened to the paths of the files in the
\* order the loop of list_files meets them: the subdirectories first, each
\* in turn, then the files of the directory itself.  A top that is no
\* directory yields nothing.
RECURSIVE Walk(_, _)
RECURSIVE WalkEach(_, _)
WalkEach(subs, ord) ==
    IF subs = <<>> THEN <<>>
    ELSE Walk(Head(subs), ord) \o WalkEach(Tail(subs), ord)
Walk(cs, ord) ==
    IF cs \notin dirs THEN <<>>
    ELSE WalkEach(Under(cs, Names(Children(cs) \cap dirs, ord)), ord)
             \o Under(cs, Names(Children(cs) \cap DOMAIN files, ord))

\* ------------------------------------------------------------------ reads

\* The base names of a sequence of paths.
Basenames(paths) == [i \in 1..Len(paths) |-> Basename(paths[i])]

\* Mutant: the glob is used in the order the filesystem gives it, here the
\* descending one.
ListPackagesUnsorted ==
    Basenames(SelectSeq(Reverse(Sorted(Glob)), LAMBDA p : IsDir(p)))

\* list_packages: the base names of the sorted glob that are directories.
ListPackages == Basenames(SelectSeq(Sorted(Glob), LAMBDA p : IsDir(p)))

\* The first element of a sequence, as a set of at most one: with the
\* sequence filtered by a loop's condition, the element at which the loop
\* is left by break or return.
FirstOf(seq) == IF seq = <<>> THEN {} ELSE {seq[1]}

\* The record list_files yields for each file its walk finds.
Records(package, found) ==
    [i \in 1..Len(found) |->
        [package     |-> package,
         firstletter |-> Head(package),
         filename    |-> found[i][Len(found[i])],
         md5         |-> Md5(files[found[i]])]]

\* The records list_files yields from its walk of the package prefix.
WalkRecords(package, ord) ==
    Records(package, Walk(Split(PackagePrefix(package)), ord))

\* list_files: when the prefix is no directory, the listing of the first
\* package of list_packages that equals the name ignoring case (m); the
\* walk of the prefix otherwise, and when nothing matches.
RECURSIVE ListFiles(_, _)

\* Mutant: no fishing, the walk of the exact prefix only.
ListFilesViaNoFish(package, m, ord) == WalkRecords(package, ord)

\* Mutant: the loop over list_packages stops at its first package, whether
\* the names match or not.
ListFilesViaAny(package, m, ord) ==
    IF ~IsDir(PackagePrefix(package)) /\ ListPackages # <<>>
    THEN ListFiles(ListPackages[1], ord)
    ELSE WalkRecords(package, ord)

\* Mutant: the loop over list_packages goes on after a match, so the last
\* matching package is listed.
ListFilesViaLast(package, m, ord) ==
    IF m # {}
    THEN ListFiles(Reverse(SelectSeq(ListPackages,
                                     LAMBDA q : Lower(q) = Lower(package)))[1],
                   ord)
    ELSE WalkRecords(package, ord)

ListFilesVia(package, m, ord) ==
    IF m # {} THEN ListFiles(CHOOSE q \in m : TRUE, ord)
    ELSE WalkRecords(package, ord)
ListFiles(package, ord) ==
    ListFilesVia(package,
                 IF IsDir(PackagePrefix(package)) THEN {}
                 ELSE FirstOf(SelectSeq(ListPackages,
                                        LAMBDA q : Lower(q) = Lower(package))),
                 ord)

\* The inner loop of the fishing of get_file: the filename of the first
\* record of list_files(my_package) that equals the requested one ignoring
\* case, as a set of at most one file name.
FishFile(my_package, filename, ord) ==
    {r.filename : r \in FirstOf(SelectSeq(ListFiles(my_package, ord),
                             LAMBDA r : Lower(r.filename) = Lower(filename)))}

\* The pair get_file retries with, for the packages qs (at most one).
FishPair(qs, filename, ord) ==
    {<<q, CHOOSE f \in FishFile(q, filename, ord) : TRUE>> : q \in qs}

\* The (package, filename) pair the fishing loop of get_file retries with:
\* the packages of list_packages in order, those equal to the requested
\* name ignoring case; the first of them with a matching file.
FishMatch(package, filename, ord) ==
    FishPair(FirstOf(SelectSeq(ListPackages,
                               LAMBDA q : /\ Lower(q) = Lower(package)
                                          /\ FishFile(q, filename, ord) # {})),
             filename, ord)

\* ------------------------------------------------------------------ state

NoResult == [type |-> "none", val |-> <<>>]

NoContent == [kind |-> "bytes", data |-> <<>>, fault |-> "none"]

IdleWr ==
    [pc |-> "idle", package |-> <<>>, filename |-> <<>>, content |-> NoContent,
     path |-> <<>>, buf |-> <<>>, result |-> NoResult]

IdleRd ==
    [op |-> "none", pc |-> "idle", package |-> <<>>, filename |-> <<>>,
     orig |-> <<>>, depth |-> 0, result |-> NoResult]

\* The store after construction: nothing below the prefix, no call made.
Init ==
    /\ dirs = {}
    /\ files = <<>>
    /\ wr = [w \in Writers |-> IdleWr]
    /\ rd = IdleRd
    /\ stored = {}
    /\ nadds = 0

\* Caller w is between two calls.
Idle(w) == wr[w].pc = "idle"

\* Caller w's call returns or raises.
Finish(w, type, val) ==
    wr' = [wr EXCEPT ![w].pc = "done", ![w].result = [type |-> type, val |-> val]]

\* ------------------------------------------------------------------ add_file

\* A caller calls add_file(package, filename, content); line 72 computes
\* the path.
AddFileCall(w, package, filename, content) ==
    /\ Idle(w)
    /\ rd.pc = "idle"
    /\ nadds < MaxAdds
    /\ nadds' = nadds + 1
    /\ wr' = [wr EXCEPT ![w] =
                 [pc |-> "isfile", package |-> package, filename |-> filename,
                  content |-> content, path |-> GetFilePath(package, filename),
                  buf |-> <<>>, result |-> NoResult]]
    /\ UNCHANGED <<dirs, files, rd, stored>>

\* Mutant: add_file without its existence check.
AddFileIsFileNoCheck(w) ==
    /\ wr[w].pc = "isfile"
    /\ wr' = [wr EXCEPT ![w].pc = "isdir"]
    /\ UNCHANGED <<dirs, files, rd, stored, nadds>>

\* Mutant: the existence check also looks for a file that equals the
\* request ignoring case.
AddFileIsFileFuzzy(w) ==
    /\ wr[w].pc = "isfile"
    /\ IF \E P \in PackageNames, G \in FileNames :
              /\ Lower(P) = Lower(wr[w].package)
              /\ Lower(G) = Lower(wr[w].filename)
              /\ IsFile(GetFilePath(P, G))
       THEN Finish(w, "NotOverwritingError", wr[w].path)
       ELSE wr' = [wr EXCEPT ![w].pc = "isdir"]
    /\ UNCHANGED <<dirs, files, rd, stored, nadds>>

\* if os.path.isfile(path): raise NotOverwritingError
AddFileIsFile(w) ==
    /\ wr[w].pc = "isfile"
    /\ IF IsFile(wr[w].path)
       THEN Finish(w, "NotOverwritingError", wr[w].path)
       ELSE wr' = [wr EXCEPT ![w].pc = "isdir"]
    /\ UNCHANGED <<dirs, files, rd, stored, nadds>>

\* prefix = os.path.dirname(path); if not os.path.isdir(prefix):
AddFileIsDir(w) ==
    /\ wr[w].pc = "isdir"
    /\ wr' = [wr EXCEPT ![w].pc =
                 IF IsDir(Dirname(wr[w].path)) THEN "open" ELSE "makedirs"]
    /\ UNCHANGED <<dirs, files, rd, stored, nadds>>

\* os.makedirs(prefix)
AddFileMakedirs(w) ==
    /\ wr[w].pc = "makedirs"
    /\ dirs' = MakedirsDirs(Dirname(wr[w].path))
    /\ IF MakedirsOk(Dirname(wr[w].path))
       THEN wr' = [wr EXCEPT ![w].pc = "open"]
       ELSE Finish(w, "OSError", Dirname(wr[w].path))
    /\ UNCHANGED <<files, rd, stored, nadds>>

\* with open(path, "wb") as output: creates the file empty or truncates it;
\* then the hasattr(content, "read") test.
AddFileOpen(w) ==
    /\ wr[w].pc = "open"
    /\ IF wr[w].content.fault # "open" /\ CanOpenWrite(wr[w].path)
       THEN /\ files' = [p \in DOMAIN files \cup {Split(wr[w].path)} |->
                            IF p = Split(wr[w].path) THEN <<>> ELSE files[p]]
            /\ wr' = [wr EXCEPT
                        ![w].pc = IF wr[w].content.kind = "stream"
                                  THEN "read" ELSE "write",
                        ![w].buf = IF wr[w].content.kind = "stream"
                                   THEN <<>> ELSE wr[w].content.data]
       ELSE /\ Finish(w, "IOError", wr[w].path)
            /\ UNCHANGED files
    /\ UNCHANGED <<dirs, rd, stored, nadds>>

\* Mutant: the stream is not read before the write.
AddFileReadSkip(w) ==
    /\ wr[w].pc = "read"
    /\ wr' = [wr EXCEPT ![w].pc = "write"]
    /\ UNCHANGED <<dirs, files, rd, stored, nadds>>

\* content = content.read(): an exception leaves the with block, which
\* closes the file as it is.
AddFileRead(w) ==
    /\ wr[w].pc = "read"
    /\ IF wr[w].content.fault = "read"
       THEN Finish(w, "IOError", wr[w].path)
       ELSE wr' = [wr EXCEPT ![w].pc = "write", ![w].buf = wr[w].content.data]
    /\ UNCHANGED <<dirs, files, rd, stored, nadds>>

\* output.write(content) and the close at the end of the with block: the
\* bytes go to the start of the file; on a write fault only the first part
\* of them does.  A normal return ends the call.
AddFileWrite(w) ==
    /\ wr[w].pc = "write"
    /\ LET p == Split(wr[w].path)
           out == IF wr[w].content.fault = "write"
                  THEN SubSeq(wr[w].buf, 1, Len(wr[w].buf) - 1)
                  ELSE wr[w].buf
       IN  files' = [files EXCEPT ![p] = Overlay(files[p], out)]
    /\ IF wr[w].content.fault = "write"
       THEN /\ Finish(w, "IOError", wr[w].path)
            /\ UNCHANGED stored
       ELSE /\ Finish(w, "ok", wr[w].path)
            /\ stored' = stored \cup
                   {<<wr[w].package, wr[w].filename, wr[w].content.data>>}
    /\ UNCHANGED <<dirs, rd, nadds>>

\* The caller takes the outcome of its add_file call and goes on.
AddFileReturn(w) ==
    /\ wr[w].pc = "done"
    /\ wr' = [wr EXCEPT ![w] = IdleWr]
    /\ UNCHANGED <<dirs, files, rd, stored, nadds>>

AddFileStep(w) ==
    \/ AddFileIsFile(w)
    \/ AddFileIsDir(w)
    \/ AddFileMakedirs(w)
    \/ AddFileOpen(w)
    \/ AddFileRead(w)
    \/ AddFileWrite(w)
    \/ AddFileReturn(w)

\* ------------------------------------------------------------------ reads

\* The sequential caller starts a read operation once its last call is over.
StartRead(record) ==
    /\ \A w \in Writers : Idle(w)
    /\ rd.pc = "idle"
    /\ rd' = record
    /\ UNCHANGED <<dirs, files, wr, stored, nadds>>

\* The caller takes the outcome of its read operation and goes on.
ReadReturn ==
    /\ rd.pc = "done"
    /\ rd' = IdleRd
    /\ UNCHANGED <<dirs, files, wr, stored, nadds>>

\* get_file(package, filename) is called.
GetFileCall(package, filename) ==
    StartRead([op |-> "get_file", pc |-> "open", package |-> package,
               filename |-> filename, orig |-> <<package, filename>>,
               depth |-> 1, result |-> NoResult])

\* path = self.get_file_path(...); try: return open(path, "rb")
GetFileOpen ==
    /\ rd.pc = "open"
    /\ LET path == GetFilePath(rd.package, rd.filename)
       IN  IF IsFile(path)
           THEN rd' = [rd EXCEPT !.pc = "done",
                         !.result = [type |-> "handle", val |-> files[Split(path)]]]
           ELSE rd' = [rd EXCEPT !.pc = "fish"]
    /\ UNCHANGED <<dirs, files, wr, stored, nadds>>

\* The frame of get_file after its fishing loop found the pairs m (at most
\* one): on a match the call returns what get_file(my_package, my_filename)
\* returns, a new frame, unless the interpreter's recursion limit is
\* reached, which raises RuntimeError through every frame; without a match
\* it raises NotFound naming package, filename and path.
AfterFish(r, m) ==
    IF m # {}
    THEN IF r.depth >= RecursionLimit
         THEN [r EXCEPT !.pc = "done",
                        !.result = [type |-> "RuntimeError", val |-> <<>>]]
         ELSE [r EXCEPT !.pc = "open", !.depth = r.depth + 1,
                        !.package = (CHOOSE x \in m : TRUE)[1],
                        !.filename = (CHOOSE x \in m : TRUE)[2]]
    ELSE [r EXCEPT !.pc = "done",
                   !.result = [type |-> "NotFound",
                               val |-> <<r.package, r.filename,
                                         GetFilePath(r.package, r.filename)>>]]

\* except IOError: the fishing loop, under enumeration order ord.
GetFileFish(ord) ==
    /\ rd.pc = "fish"
    /\ rd' = AfterFish(rd, FishMatch(rd.package, rd.filename, ord))
    /\ UNCHANGED <<dirs, files, wr, stored, nadds>>

\* list(list_files(package)) under enumeration order ord.
ListFilesCall(package, ord) ==
    StartRead([op |-> "list_files", pc |-> "done", package |-> package,
               filename |-> <<>>, orig |-> <<package>>, depth |-> 1,
               result |-> [type |-> "records", val |-> ListFiles(package, ord)]])

\* list(list_packages())
ListPackagesCall ==
    StartRead([op |-> "list_packages", pc |-> "done", package |-> <<>>,
               filename |-> <<>>, orig |-> <<>>, depth |-> 1,
               result |-> [type |-> "names", val |-> ListPackages]])

\* get_file_path(package, filename)
GetFilePathCall(package, filename) ==
    StartRead([op |-> "get_file_path", pc |-> "done", package |-> package,
               filename |-> filename, orig |-> <<package, filename>>,
               depth |-> 1,
               result |-> [type |-> "path", val |-> GetFilePath(package, filename)]])

\* ------------------------------------------------------------------ specifications

\* One sequential caller.
Next ==
    \/ \E p \in PackageNames, f \in FileNames, c \in ContentArgs :
           AddFileCall(1, p, f, c)
    \/ \E w \in SeqWriters : AddFileStep(w)
    \/ \E p \in RequestPackages, f \in RequestFiles : GetFileCall(p, f)
    \/ GetFileOpen
    \/ \E ord \in Orders : GetFileFish(ord)
    \/ \E p \in RequestPackages, ord \in Orders : ListFilesCall(p, ord)
    \/ ListPackagesCall
    \/ \E p \in RequestPackages, f \in RequestFiles : GetFilePathCall(p, f)
    \/ ReadReturn

Spec == Init /\ [][Next]_vars

\* Two callers of add_file, their statements interleaved.
NextConc ==
    \/ \E w \in Writers, p \in PackageNames, f \in FileNames, c \in ContentArgs :
           AddFileCall(w, p, f, c)
    \/ \E w \in Writers : AddFileStep(w)

SpecConc == Init /\ [][NextConc]_vars

\* One sequential caller that spells nested file names in several ways.
NextPaths ==
    \/ \E p \in PackageNames, f \in PathFileNames, c \in ContentArgs :
           AddFileCall(1, p, f, c)
    \/ \E w \in SeqWriters : AddFileStep(w)
    \/ \E p \in PackageNames, f \in PathFileNames : GetFileCall(p, f)
    \/ GetFileOpen
    \/ \E ord \in Orders : GetFileFish(ord)
    \/ ReadReturn

SpecPaths == Init /\ [][NextPaths]_vars

\* ------------------------------------------------------------------ claims

\* The contents add_file(package, filename, .) stored with success.
StoredContents(package, filename) ==
    {t[3] : t \in {u \in stored : u[1] = package /\ u[2] = filename}}

\* The file add_file(package, filename, .) writes exists.
Holds(package, filename) == IsFile(GetFilePath(package, filename))

\* What the file of (package, filename) holds.
ContentOf(package, filename) == files[Split(GetFilePath(package, filename))]

\* A directory of package exists at its place in the layout.
PackageStored(package) == IsDir(PackagePrefix(package))

GetFileDone == rd.op = "get_file" /\ rd.pc = "done"

\* C1: write-then-read round trip.  Whenever get_file(P, F) has returned
\* and an earlier add_file(P, F, C) returned without error (C given as
\* bytes or as a stream), the call returned a handle whose bytes are C.
C1_RoundTrip ==
    (GetFileDone /\ StoredContents(rd.orig[1], rd.orig[2]) # {})
        => /\ rd.result.type = "handle"
           /\ StoredContents(rd.orig[1], rd.orig[2]) = {rd.result.val}

\* C1 witness: get_file returned the bytes add_file stored for a file in a
\* subdirectory.
C1_Witness ==
    /\ GetFileDone
    /\ rd.orig = << <<"a","b">>, <<"s","/","x">> >>
    /\ rd.result.type = "handle"
    /\ rd.result.val = <<1, 2>>
    /\ << <<"a","b">>, <<"s","/","x">>, <<1, 2>> >> \in stored
    /\ nadds = 1

\* C2: write-once.  A call add_file(P, F, C2) made after an add_file(P, F,
\* C1) that succeeded takes one step only: its existence check, which ends
\* it with NotOverwritingError naming the path and changes no file and no
\* directory; the file of (P, F) holds C1 before and after.
C2_WriteOnceStep ==
    \A w \in Writers :
        (wr[w].pc \notin {"idle", "done"}
            /\ StoredContents(wr[w].package, wr[w].filename) # {})
        => /\ wr[w].pc = "isfile"
           /\ wr'[w].pc = "done"
           /\ wr'[w].result =
                  [type |-> "NotOverwritingError",
                   val  |-> GetFilePath(wr[w].package, wr[w].filename)]
           /\ dirs' = dirs
           /\ files' = files
           /\ Holds(wr[w].package, wr[w].filename)
           /\ StoredContents(wr[w].package, wr[w].filename)
                  = {ContentOf(wr[w].package, wr[w].filename)}

C2_WriteOnce == [][C2_WriteOnceStep]_vars

\* C2 witness: the second add_file for a pair, with other bytes, has ended
\* with NotOverwritingError and the file holds the first bytes.
C2_Witness ==
    /\ wr[1].pc = "done"
    /\ wr[1].result.type = "NotOverwritingError"
    /\ wr[1].content.data = <<2, 1>>
    /\ StoredContents(wr[1].package, wr[1].filename) = {<<1, 2>>}
    /\ ContentOf(wr[1].package, wr[1].filename) = <<1, 2>>

\* C3: concurrent writers.  When two add_file calls without environment
\* faults for the same (P, F) with different contents have both ended and
\* one of them returned success, the other did not, and the file holds the
\* bytes of the one that succeeded.
C3_AtomicCreate ==
    \A w1, w2 \in Writers :
        (/\ w1 # w2
         /\ wr[w1].pc = "done" /\ wr[w2].pc = "done"
         /\ wr[w1].package = wr[w2].package
         /\ wr[w1].filename = wr[w2].filename
         /\ wr[w1].content.data # wr[w2].content.data
         /\ wr[w1].content.fault = "none" /\ wr[w2].content.fault = "none"
         /\ wr[w1].result.type = "ok")
        => /\ wr[w2].result.type # "ok"
           /\ ContentOf(wr[w1].package, wr[w1].filename) = wr[w1].content.data

\* No other stored package and no other file of P equals P, F ignoring case.
OnlySpelling(P, F) ==
    /\ \A Q \in RequestPackages :
           (Q # P /\ Lower(Q) = Lower(P)) => ~PackageStored(Q)
    /\ \A G \in RequestFiles :
           (G # F /\ Lower(G) = Lower(F)) => ~Holds(P, G)

\* C4: case-insensitive read resolution.  Whenever get_file(p, f) has
\* ended and the store holds a file F in a package P with lower(p) =
\* lower(P), lower(f) = lower(F), and no other stored package or file of P
\* equals them ignoring case, the call returned a handle with the bytes of
\* that file.
C4_CaseInsensitiveRead ==
    GetFileDone =>
        \A P \in PackageNames, F \in FileNames :
            (/\ Holds(P, F)
             /\ Lower(rd.orig[1]) = Lower(P)
             /\ Lower(rd.orig[2]) = Lower(F)
             /\ OnlySpelling(P, F))
            => rd.result = [type |-> "handle", val |-> ContentOf(P, F)]

\* C5: case-insensitive listing resolution.  Whenever list_files(p) has
\* ended and P is the only stored package that equals p ignoring case, the
\* records it yielded are those of list_files(P): same number, same
\* package, firstletter, filename and checksum fields.
C5_CaseInsensitiveListing ==
    (rd.op = "list_files" /\ rd.pc = "done") =>
        \A P \in PackageNames :
            (/\ PackageStored(P)
             /\ Lower(P) = Lower(rd.package)
             /\ \A Q \in RequestPackages :
                    (Q # P /\ Lower(Q) = Lower(P)) => ~PackageStored(Q))
            => /\ rd.result.type = "records"
               /\ \E ord \in Orders : rd.result.val = ListFiles(P, ord)
               /\ \E ord \in Orders :
                      rd.result.val =
                          Records(P, Walk(Split(PackagePrefix(P)), ord))

\* C5 witness: list_files of a spelling that is not stored yielded the two
\* records of the one stored spelling.
C5_Witness ==
    /\ rd.op = "list_files" /\ rd.pc = "done"
    /\ rd.package = <<"A","B">>
    /\ PackageStored(<<"a","b">>)
    /\ ~PackageStored(<<"A","b">>)
    /\ Len(rd.result.val) = 2
    /\ rd.result.val[1].package = <<"a","b">>

\* No stored file equals (p, f) exactly or ignoring case.
NoMatch(p, f) ==
    \A P \in PackageNames, F \in FileNames :
        (Lower(P) = Lower(p) /\ Lower(F) = Lower(f)) => ~Holds(P, F)

\* C6: nonexistent lookup.  Whenever get_file(p, f) has ended and no stored
\* (package, file) equals (p, f) exactly or ignoring case, it ended with
\* NotFound naming the requested p, f and the path get_file_path(p, f).
C6_NotFound ==
    (GetFileDone /\ NoMatch(rd.orig[1], rd.orig[2]))
        => rd.result = [type |-> "NotFound",
                        val  |-> <<rd.orig[1], rd.orig[2],
                                   GetFilePath(rd.orig[1], rd.orig[2])>>]

\* C7: listing an absent package.  Whenever list_files(p) has ended and no
\* stored package equals p exactly or ignoring case, it yielded the empty
\* sequence and raised nothing.
C7_AbsentListing ==
    (/\ rd.op = "list_files" /\ rd.pc = "done"
     /\ \A Q \in RequestPackages :
            Lower(Q) = Lower(rd.package) => ~PackageStored(Q))
        => rd.result = [type |-> "records", val |-> <<>>]

\* C7 witness: list_files of an absent package ended on a store that holds
\* files of two other packages.
C7_Witness ==
    /\ rd.op = "list_files" /\ rd.pc = "done"
    /\ rd.package = <<"b">>
    /\ ~PackageStored(<<"b">>)
    /\ Holds(<<"a","b">>, <<"x">>)
    /\ Holds(<<"A","b">>, <<"s","/","x">>)
    /\ rd.result.val = <<>>

C9_AllOrNothing ==
    \A w \in Writers :
        (wr[w].pc = "done" /\ wr[w].result.type # "NotOverwritingError")
        => \/ ~Holds(wr[w].package, wr[w].filename)
           \/ ContentOf(wr[w].package, wr[w].filename) = wr[w].content.data

\* The file at path p is being written by the call that created it.
BeingWritten(p) ==
    \E w \in Writers : wr[w].pc \in {"read", "write"} /\ Split(wr[w].path) = p

\* C10: stored content is permanent.  In every step of every operation:
\* each file add_file stored with success is there with its content before
\* and after; no directory and no file goes away; no file changes except
\* the one the running add_file created and is writing; get_file,
\* list_files, list_packages and get_file_path change nothing in the store.
C10_PermanentStep ==
    /\ \A t \in stored : Holds(t[1], t[2]) /\ ContentOf(t[1], t[2]) = t[3]
    /\ stored \subseteq stored'
    /\ \A t \in stored :
           Split(GetFilePath(t[1], t[2])) \in DOMAIN files'
               /\ files'[Split(GetFilePath(t[1], t[2]))] = t[3]
    /\ dirs \subseteq dirs'
    /\ DOMAIN files \subseteq DOMAIN files'
    /\ \A p \in DOMAIN files : ~BeingWritten(p) => files'[p] = files[p]
    /\ rd' # rd => (dirs' = dirs /\ files' = files)

C10_Permanent == [][C10_PermanentStep]_vars

\* C10 witness: after a file was stored and a second add_file call ended,
\* a get_file that raised NotFound has ended.
C10_Witness ==
    /\ stored # {}
    /\ nadds = 2
    /\ GetFileDone
    /\ rd.result.type = "NotFound"

\* C11: get_file_path.  Every call get_file_path(P, F) ends at once with
\* the path packages/<first character of P>/<P>/<F> below the root, which
\* is a function of P and F alone (the same in every state of the store),
\* and the step that makes the call changes no directory and no file.
C11_GetFilePathStep ==
    (rd.pc = "idle" /\ rd'.op = "get_file_path")
        => /\ rd'.pc = "done"
           /\ rd'.result =
                  [type |-> "path",
                   val  |-> Join(<<PackagesStr, <<rd'.package[1]>>,
                                   rd'.package, rd'.filename>>)]
           /\ rd'.orig = <<rd'.package, rd'.filename>>
           /\ dirs' = dirs
           /\ files' = files

C11_GetFilePath == [][C11_GetFilePathStep]_vars

\* C11 witness: get_file_path of an upper-case package and a nested name
\* has ended on a store that holds files.
C11_Witness ==
    /\ rd.op = "get_file_path" /\ rd.pc = "done"
    /\ rd.package = <<"A","b">>
    /\ rd.filename = <<"s","/","X">>
    /\ rd.result.val = <<"p","a","c","k","a","g","e","s","/","A","/","A","b",
                          "/","s","/","X">>
    /\ stored # {}

\* C12: get_file terminates.  Every get_file call that has ended returned a
\* handle or raised NotFound: it never ran into the interpreter's limit on
\* nested calls, and the retry after a match opened the file it found.
C12_Terminates ==
    /\ GetFileDone => rd.result.type \in {"handle", "NotFound"}
    /\ rd.op = "get_file" => rd.depth <= 2

\* The regular files anywhere under directory cs.
FilesUnder(cs) ==
    {e \in DOMAIN files : Len(e) > Len(cs) /\ SubSeq(e, 1, Len(cs)) = cs}

\* The record the claims expect for the file at e, listed for package P.
RecordOf(P, e) ==
    [package |-> P, firstletter |-> P[1], filename |-> e[Len(e)],
     md5 |-> Md5(files[e])]

\* How often record r occurs in the sequence val.
Occurrences(val, r) == Cardinality({i \in 1..Len(val) : val[i] = r})

\* val holds one record for each file under P's directory and nothing else.
IsListingOf(val, P) ==
    /\ Len(val) = Cardinality(FilesUnder(Split(PackagePrefix(P))))
    /\ \A e \in FilesUnder(Split(PackagePrefix(P))) :
           Occurrences(val, RecordOf(P, e))
               = Cardinality({g \in FilesUnder(Split(PackagePrefix(P))) :
                                 RecordOf(P, g) = RecordOf(P, e)})

\* C13: exact-case listing.  Whenever list_files(P) has ended and P's
\* exact-case directory exists, it yielded one record for each regular
\* file under the directory, at any depth, and nothing else, each with
\* package = P, firstletter = P[0], filename = the file's own name and the
\* digest of the file's content; another call on the same store yields
\* the same records, whatever the enumeration order.
C13_ExactListing ==
    (rd.op = "list_files" /\ rd.pc = "done" /\ PackageStored(rd.package))
        => /\ rd.result.type = "records"
           /\ IsListingOf(rd.result.val, rd.package)
           /\ \A ord \in Orders :
                  /\ IsListingOf(ListFiles(rd.package, ord), rd.package)
                  /\ \A i \in 1..Len(rd.result.val) :
                         Occurrences(ListFiles(rd.package, ord), rd.result.val[i])
                             = Occurrences(rd.result.val, rd.result.val[i])

\* C13 witness: list_files of a package with a file in its directory and
\* a file of other content in a subdirectory yielded two records.
C13_Witness ==
    /\ rd.op = "list_files" /\ rd.pc = "done"
    /\ rd.package = <<"a","b">>
    /\ Holds(<<"a","b">>, <<"X">>)
    /\ Holds(<<"a","b">>, <<"s","/","x">>)
    /\ ContentOf(<<"a","b">>, <<"X">>) # ContentOf(<<"a","b">>, <<"s","/","x">>)
    /\ Len(rd.result.val) = 2
    /\ rd.result.val[1].filename = <<"x">>
    /\ rd.result.val[2].filename = <<"X">>

\* The stored packages that equal p ignoring case.
Matching(p) ==
    {P \in PackageNames : PackageStored(P) /\ Lower(P) = Lower(p)}

\* The package of M that list_packages yields first.
FirstListed(M) ==
    ListPackages[CHOOSE i \in 1..Len(ListPackages) :
                    /\ ListPackages[i] \in M
                    /\ \A j \in 1..(i - 1) : ListPackages[j] \notin M]

\* C14: first case-insensitive match only.  Whenever list_files(p) has
\* ended, p has no exact-case directory and two or more stored packages
\* equal p ignoring case, the records it yielded are those of the first of
\* them in list_packages order (the least name), one per file of that
\* package, and none of them belongs to another package.
C14_FirstMatchOnly ==
    (/\ rd.op = "list_files" /\ rd.pc = "done"
     /\ ~PackageStored(rd.package)
     /\ Cardinality(Matching(rd.package)) >= 2)
        => /\ rd.result.type = "records"
           /\ FirstListed(Matching(rd.package)) = MinStr(Matching(rd.package))
           /\ IsListingOf(rd.result.val, FirstListed(Matching(rd.package)))
           /\ \A i \in 1..Len(rd.result.val) :
                  rd.result.val[i].package = FirstListed(Matching(rd.package))

\* C14 witness: list_files of a spelling without directory, with a file
\* stored under each of two other spellings, yielded the one record of the
\* spelling list_packages yields first.
C14_Witness ==
    /\ rd.op = "list_files" /\ rd.pc = "done"
    /\ rd.package = <<"A","B">>
    /\ Holds(<<"a","b">>, <<"x">>)
    /\ Holds(<<"A","b">>, <<"s","/","x">>)
    /\ Len(rd.result.val) = 1
    /\ rd.result.val[1].package = <<"A","b">>
    /\ rd.result.val[1].md5 = Md5(ContentOf(<<"A","b">>, <<"s","/","x">>))

\* The files of stored package P that equal f ignoring case.
MatchingFiles(P, f) ==
    {F \in FileNames : Holds(P, F) /\ Lower(F) = Lower(f)}

\* The stored packages that equal p ignoring case and hold a file that
\* equals f ignoring case.
MatchingPackages(p, f) == {P \in Matching(p) : MatchingFiles(P, f) # {}}

\* The stored (package, file) pairs that equal (p, f) ignoring case.
MatchingPairs(p, f) ==
    {pair \in PackageNames \X FileNames :
        pair[1] \in Matching(p) /\ pair[2] \in MatchingFiles(pair[1], f)}

\* Every stored file lies in the directory of its package.
NoNestedFile == \A e \in DOMAIN files : Len(e) = 4

\* Every file of the store was written by an add_file call that succeeded.
AllFilesStored ==
    \A e \in DOMAIN files :
        \E t \in stored : Split(GetFilePath(t[1], t[2])) = e

\* C15: resolution order of get_file.  Whenever get_file(p, f) has ended,
\* the exact path of (p, f) is no file, every file of the store was
\* stored with success and none lies in a subdirectory, and two or more
\* stored pairs equal (p, f) ignoring case,
\* the call returned a handle with the bytes of the least matching file
\* name of the least matching package that holds a matching file,
\* whatever the enumeration order of the filesystem.
C15_ResolutionOrder ==
    (/\ GetFileDone
     /\ ~Holds(rd.orig[1], rd.orig[2])
     /\ AllFilesStored
     /\ NoNestedFile
     /\ Cardinality(MatchingPairs(rd.orig[1], rd.orig[2])) >= 2)
        => rd.result =
               [type |-> "handle",
                val  |-> ContentOf(
                   MinStr(MatchingPackages(rd.orig[1], rd.orig[2])),
                   MinStr(MatchingFiles(
                       MinStr(MatchingPackages(rd.orig[1], rd.orig[2])),
                       rd.orig[2])))]

\* Caller w runs add_file(p, F, C) without environment fault, a different
\* stored package equal to p ignoring case holds a file equal to F ignoring
\* case, and the call found nothing at the exact path of (p, F).
WritesBesideMatch(w) ==
    /\ wr[w].pc \notin {"idle", "done"}
    /\ wr[w].content.fault = "none"
    /\ \E P \in PackageNames \ {wr[w].package} :
           /\ Lower(P) = Lower(wr[w].package)
           /\ MatchingFiles(P, wr[w].filename) # {}
    /\ wr[w].pc = "isfile" => (~IsFile(wr[w].path) /\ ~IsDir(wr[w].path))

\* C16: no fuzzy matching on write.  Every step of an add_file(p, F, C)
\* call that runs without environment fault beside a different stored
\* package P, lower(P) = lower(p), holding a file equal to F ignoring case,
\* with nothing at the exact path of (p, F): raises nothing, changes no
\* file outside p's own directory, and when it ends the call it has
\* returned normally and the file packages/<p[0]>/<p>/<F> holds C.
C16_NoFuzzyWriteStep ==
    \A w \in Writers :
        WritesBesideMatch(w)
        => /\ wr'[w].result.type \in {"none", "ok"}
           /\ dirs \subseteq dirs'
           /\ \A e \in DOMAIN files :
                  SubSeq(e, 1, 3) # Split(PackagePrefix(wr[w].package))
                      => (e \in DOMAIN files' /\ files'[e] = files[e])
           /\ wr'[w].pc = "done"
                  => /\ wr'[w].result = [type |-> "ok", val |-> wr[w].path]
                     /\ Split(wr[w].path) \in DOMAIN files'
                     /\ files'[Split(wr[w].path)] = wr[w].content.data
                     /\ SubSeq(Split(wr[w].path), 1, 3)
                            = <<PackagesStr, <<wr[w].package[1]>>, wr[w].package>>

C16_NoFuzzyWrite == [][C16_NoFuzzyWriteStep]_vars

\* C16 witness: add_file('Ab', 'x', .) has returned normally while package
\* 'ab' holds the file 'X' with other bytes, which are still there.
C16_Witness ==
    /\ wr[1].pc = "done"
    /\ wr[1].result.type = "ok"
    /\ wr[1].package = <<"A","b">>
    /\ wr[1].filename = <<"x">>
    /\ wr[1].content.data = <<2, 1>>
    /\ Holds(<<"a","b">>, <<"X">>)
    /\ ContentOf(<<"a","b">>, <<"X">>) = <<1, 2>>
    /\ ContentOf(<<"A","b">>, <<"x">>) = <<2, 1>>

\* The directories that glob("packages/?/*") finds: two levels below
\* packages, the first level name one character long.
GlobDirectories ==
    {d \in dirs : Len(d) = 3 /\ d[1] = PackagesStr /\ Len(d[2]) = 1}

C18_ListedHasFile ==
    (\A w \in Writers : wr[w].pc \in {"idle", "done"})
        => \A i \in 1..Len(ListPackages) :
               \A ord \in Orders : ListFiles(ListPackages[i], ord) # <<>>

\* C19: one location per (package, filename) pair.  Whenever an add_file
\* call has ended with NotOverwritingError on a store all of whose files
\* were stored with success, an earlier add_file call for the same
\* (package, filename) pair succeeded: the file in its way was not written
\* for a different pair.
C19_OneLocation ==
    \A w \in Writers :
        (/\ wr[w].pc = "done"
         /\ wr[w].result.type = "NotOverwritingError"
         /\ AllFilesStored)
        => StoredContents(wr[w].package, wr[w].filename) # {}

====
